---- MODULE Spec2Model ----
(***************************************************************************)
(* Order back end of server.js: the line-item normaliser                   *)
(* (buildParsedItems), the order routes (create, full replace, status      *)
(* change, delete) and the order collection they write to.                 *)
(*                                                                         *)
(* server.js holds two revisions of the program one after the other; the   *)
(* model follows the later one (from line 300 on).  The order routes of    *)
(* the earlier revision differ from it only in the answer of the delete    *)
(* route, which is kept below as DeleteOrderLegacy.                        *)
(***************************************************************************)
EXTENDS Integers, Sequences, FiniteSets, TLC

\* ------------------------------------------------------------------ bounds
MaxItems == 2        \* longest raw item list handed to the normaliser alone
MaxOrders == 2       \* orders ever created (identifiers 1..MaxOrders)
MaxRequests == 2     \* requests in flight at once on the shared order

\* ------------------------------------------- JSON values of a request body
\* A value of a request body: its JavaScript type and, for a number, a
\* numeric string or a boolean, the number it stands for.  "infstr" is a
\* numeric string beyond the double range ("1e999", lit = 1; "-1e999",
\* lit = -1), "str" a non-empty string that is no number, lit telling such
\* strings apart.
Undef == [typ |-> "undef", lit |-> 0]
Null == [typ |-> "null", lit |-> 0]
EmptyStr == [typ |-> "emptystr", lit |-> 0]
JNum(n) == [typ |-> "num", lit |-> n]
JNumStr(n) == [typ |-> "numstr", lit |-> n]
JInfStr(sign) == [typ |-> "infstr", lit |-> sign]
JStr(n) == [typ |-> "str", lit |-> n]
JBool(b) == [typ |-> "bool", lit |-> IF b THEN 1 ELSE 0]
JObj == [typ |-> "object", lit |-> 0]

\* ----------------------------------------------------- JavaScript numbers
\* A double: finite (an integer here), an infinity with its sign, or NaN.
\* Absent is a Number field that a stored document does not carry.
Fin(n) == [cls |-> "fin", mag |-> n]
Inf(sign) == [cls |-> "inf", mag |-> sign]
NaN == [cls |-> "nan", mag |-> 0]
Absent == [cls |-> "absent", mag |-> 0]

Sign(x) == IF x.mag > 0 THEN 1 ELSE IF x.mag < 0 THEN -1 ELSE 0

\* The * operator of line 437.
Mul(a, b) ==
  IF a.cls = "nan" \/ b.cls = "nan" THEN NaN
  ELSE IF a.cls = "fin" /\ b.cls = "fin" THEN Fin(a.mag * b.mag)
  ELSE IF Sign(a) = 0 \/ Sign(b) = 0 THEN NaN
  ELSE Inf(Sign(a) * Sign(b))

\* The + operator of line 442.
Add(a, b) ==
  IF a.cls = "nan" \/ b.cls = "nan" THEN NaN
  ELSE IF a.cls = "fin" /\ b.cls = "fin" THEN Fin(a.mag + b.mag)
  ELSE IF a.cls = "inf" /\ b.cls = "inf" THEN (IF a.mag = b.mag THEN a ELSE NaN)
  ELSE IF a.cls = "inf" THEN a ELSE b

\* Number(x), lines 429, 430 and 434.
Number(x) ==
  CASE x.typ = "undef" -> NaN
    [] x.typ = "null" -> Fin(0)
    [] x.typ = "emptystr" -> Fin(0)
    [] x.typ = "num" -> Fin(x.lit)
    [] x.typ = "numstr" -> Fin(x.lit)
    [] x.typ = "infstr" -> Inf(x.lit)
    [] x.typ = "bool" -> Fin(x.lit)
    [] x.typ = "str" -> NaN
    [] x.typ = "object" -> NaN

\* Whether a number is falsy: NaN and zero are.
FalsyNum(n) == n.cls = "nan" \/ (n.cls = "fin" /\ n.mag = 0)

\* n || d on numbers, lines 429, 430, 434 and 442.
OrNum(n, d) == IF FalsyNum(n) THEN d ELSE n

\* Whether a request value is truthy, lines 432, 438 and 450.
Truthy(x) ==
  CASE x.typ \in {"undef", "null", "emptystr"} -> FALSE
    [] x.typ \in {"num", "bool"} -> x.lit # 0
    [] OTHER -> TRUE

\* x || d on request values, lines 432 and 438.
OrVal(x, d) == IF Truthy(x) THEN x ELSE d

\* ----------------------------------------------------------- raw line items
\* An element of req.body.items: an object with any of the six fields, the
\* JSON value null, or a primitive (a number, a string), on which every
\* property read gives undefined.
RawObj(qty, price, mrp, productId, productName, note) ==
  [qty |-> qty, price |-> price, mrp |-> mrp, productId |-> productId,
   productName |-> productName, note |-> note, kind |-> "object"]
RawNull ==
  [qty |-> Undef, price |-> Undef, mrp |-> Undef, productId |-> Undef,
   productName |-> Undef, note |-> Undef, kind |-> "null"]
RawPrim ==
  [qty |-> Undef, price |-> Undef, mrp |-> Undef, productId |-> Undef,
   productName |-> Undef, note |-> Undef, kind |-> "primitive"]

\* Faulty variant of ParseItem: qty defaulted only when it is no number
\* (?? 1 in place of || 1), so that an explicit 0 stays 0.
ParseItemNoQtyDefault(item) ==
  LET qty == Number(item.qty)
      price == OrNum(Number(item.price), Fin(0))
  IN [qty |-> IF qty.cls = "nan" THEN Fin(1) ELSE qty,
      price |-> price,
      mrp |-> OrNum(Number(item.mrp), Fin(0)),
      productId |-> OrVal(item.productId, Null),
      productName |-> item.productName,
      note |-> OrVal(item.note, EmptyStr),
      lineTotal |-> Mul(price, IF qty.cls = "nan" THEN Fin(1) ELSE qty)]

\* Faulty variant of ParseItem: lineTotal taken from the list price.
ParseItemMrpTotal(item) ==
  LET qty == OrNum(Number(item.qty), Fin(1))
      price == OrNum(Number(item.price), Fin(0))
      mrp == OrNum(Number(item.mrp), Fin(0))
  IN [qty |-> qty,
      price |-> price,
      mrp |-> mrp,
      productId |-> OrVal(item.productId, Null),
      productName |-> item.productName,
      note |-> OrVal(item.note, EmptyStr),
      lineTotal |-> Mul(mrp, qty)]

\* The callback of items.map, lines 428-440.
ParseItem(item) ==
  LET qty == OrNum(Number(item.qty), Fin(1))
      price == OrNum(Number(item.price), Fin(0))
  IN [qty |-> qty,
      price |-> price,
      mrp |-> OrNum(Number(item.mrp), Fin(0)),
      productId |-> OrVal(item.productId, Null),
      productName |-> item.productName,
      note |-> OrVal(item.note, EmptyStr),
      lineTotal |-> Mul(price, qty)]

\* parsedItems.reduce((sum, it) => sum + (it.lineTotal || 0), 0), line 442.
RECURSIVE ReduceTotal(_, _, _)
ReduceTotal(parsedItems, i, sum) ==
  IF i > Len(parsedItems) THEN sum
  ELSE ReduceTotal(parsedItems, i + 1,
                   Add(sum, OrNum(parsedItems[i].lineTotal, Fin(0))))

\* Reading item.qty of a null element raises a TypeError, line 429.
Throws(items) == \E i \in 1..Len(items) : items[i].kind = "null"

\* Faulty variant of buildParsedItems: the total adds up the unit prices.
buildParsedItemsPriceTotal(items) ==
  IF Throws(items)
  THEN [parsedItems |-> <<>>, threw |-> TRUE, totalAmount |-> Fin(0)]
  ELSE LET parsedItems == [i \in 1..Len(items) |-> ParseItem(items[i])]
           priced == [i \in 1..Len(items) |->
                        [parsedItems[i] EXCEPT !.lineTotal = parsedItems[i].price]]
       IN [parsedItems |-> parsedItems, threw |-> FALSE,
           totalAmount |-> ReduceTotal(priced, 1, Fin(0))]

\* buildParsedItems, lines 427-444: the result, or threw when it raises.
buildParsedItems(items) ==
  IF Throws(items)
  THEN [parsedItems |-> <<>>, threw |-> TRUE, totalAmount |-> Fin(0)]
  ELSE LET parsedItems == [i \in 1..Len(items) |-> ParseItem(items[i])]
       IN [parsedItems |-> parsedItems, threw |-> FALSE,
           totalAmount |-> ReduceTotal(parsedItems, 1, Fin(0))]

\* ------------------------------------------------------------------ state
VARIABLES
  input,     \* the raw item list handed to buildParsedItems
  output,    \* what buildParsedItems gave for it
  orders,    \* the Order collection: stored identifier -> document
  nextId,    \* the identifier the next created order gets
  resp,      \* the last HTTP response sent
  pending,   \* requests past their handler's checks, awaiting the store
  answered,  \* the response code of each request answered so far
  log,       \* the store writes of the shared order, in the order applied
  base       \* the shared order before the concurrent requests

vars == <<input, output, orders, nextId, resp, pending, answered, log, base>>

\* The enum of orderSchema.status, lines 356-360, and of line 499.
Statuses == {"Pending", "Delivered", "Cancelled"}

\* An absent status field of a request body.
NoStatus == "undefined"

\* Values a client sends as status: the enum, others, and none.
StatusInputs == Statuses \cup {"Shipped", "pending", NoStatus}

NotRun == [parsedItems |-> <<>>, threw |-> FALSE, totalAmount |-> Fin(0),
           done |-> FALSE]
NoResp == [op |-> "none", id |-> 0, code |-> 0, deletedCount |-> 0]
Resp(op, id, code) == [op |-> op, id |-> id, code |-> code, deletedCount |-> 0]

OrderIds == 1..MaxOrders

\* ------------------------------------------------------------- raw inputs
ItemA == RawObj(Undef, JNum(5), Undef, Undef, Undef, Undef)
ItemB == RawObj(JNum(0), JNum(3), JNum(9), Undef, Undef, Undef)
ItemC == RawObj(JNumStr(2), JNumStr(10), Undef, JStr(7), JStr(8), JStr(9))
ItemQtyInf == RawObj(JInfStr(1), Undef, Undef, Undef, Undef, Undef)
ItemPosInf == RawObj(Undef, JInfStr(1), Undef, Undef, Undef, Undef)
ItemNegInf == RawObj(Undef, JInfStr(-1), Undef, Undef, Undef, Undef)

QtyInputs ==
  {Undef, Null, EmptyStr, JNum(0), JNumStr(0), JNum(2), JNum(-1), JNumStr(2),
   JStr(1), JInfStr(1), JBool(TRUE), JObj}
PriceInputs == {Undef, JNum(5), JNumStr(10), JInfStr(-1)}

RawItems ==
  {RawObj(q, p, Undef, Undef, Undef, Undef) : q \in QtyInputs, p \in PriceInputs}
  \cup {ItemA, ItemB, ItemC, RawNull, RawPrim,
        RawObj(JNum(2), JNum(5), JStr(1), Null, JNum(0), EmptyStr)}

RawItemLists == UNION {[1..n -> RawItems] : n \in 0..MaxItems}

\* req.body.items: a list, or something that is no list.
List(elems) == [elems |-> elems, isArray |-> TRUE]
NotAList == [elems |-> <<>>, isArray |-> FALSE]

Body(shopId, shopName, items, status) ==
  [items |-> items, shopId |-> shopId, shopName |-> shopName, status |-> status]

\* The request bodies of create and full replace.  Shop identifiers are
\* well-formed ObjectId strings.
OrderBodies ==
  {Body(Undef, JStr(11), List(<<ItemA, ItemB>>), NoStatus),
   Body(EmptyStr, Undef, List(<<>>), NoStatus),
   Body(JStr(1), JStr(11), NotAList, NoStatus),
   Body(JStr(1), JStr(11), List(<<>>), "Cancelled"),
   Body(JStr(1), JStr(11), List(<<ItemA, ItemB>>), NoStatus),
   Body(JStr(2), Undef, List(<<ItemC>>), "Cancelled"),
   Body(JStr(1), JStr(11), List(<<RawNull>>), NoStatus),
   Body(JStr(2), JStr(12), List(<<ItemA, ItemQtyInf>>), NoStatus),
   Body(JStr(1), JStr(11), List(<<ItemPosInf, ItemNegInf>>), NoStatus)}

\* --------------------------------------------------------------- the store
\* Mongoose casts a Number path and refuses NaN (orderItemSchema and
\* orderSchema declare lineTotal and totalAmount as Number, lines 347 and
\* 355).  create validates on save and fails; the update of a full replace
\* either fails the cast or keeps the item without the field.  A store that
\* cannot be reached (the 500 of the catch blocks) is outside the model, and
\* so are identifiers that are no well-formed ObjectId.
HasNaNLine(parsedItems) ==
  \E i \in 1..Len(parsedItems) : parsedItems[i].lineTotal.cls = "nan"

\* A sub-document whose lineTotal failed the cast is kept without the field.
DropNaNLines(parsedItems) ==
  [i \in 1..Len(parsedItems) |->
     IF parsedItems[i].lineTotal.cls = "nan"
     THEN [parsedItems[i] EXCEPT !.lineTotal = Absent]
     ELSE parsedItems[i]]

\* Faulty variant of SetFields: shopName is left as it was.
SetFieldsKeepShopName(doc, upd) ==
  [items |-> IF "items" \in DOMAIN upd THEN upd.items ELSE doc.items,
   totalAmount |-> IF "totalAmount" \in DOMAIN upd THEN upd.totalAmount
                   ELSE doc.totalAmount,
   shopId |-> IF "shopId" \in DOMAIN upd THEN upd.shopId ELSE doc.shopId,
   shopName |-> doc.shopName,
   status |-> IF "status" \in DOMAIN upd THEN upd.status ELSE doc.status]

\* The update of findByIdAndUpdate: the fields it names are set together,
\* the others of the document are kept (lines 472 and 502).
SetFields(doc, upd) ==
  [items |-> IF "items" \in DOMAIN upd THEN upd.items ELSE doc.items,
   totalAmount |-> IF "totalAmount" \in DOMAIN upd THEN upd.totalAmount
                   ELSE doc.totalAmount,
   shopId |-> IF "shopId" \in DOMAIN upd THEN upd.shopId ELSE doc.shopId,
   shopName |-> IF "shopName" \in DOMAIN upd THEN upd.shopName ELSE doc.shopName,
   status |-> IF "status" \in DOMAIN upd THEN upd.status ELSE doc.status]

\* Order.findByIdAndUpdate(id, upd) on a stored identifier.
FindByIdAndUpdate(store, id, upd) ==
  [i \in DOMAIN store |-> IF i = id THEN SetFields(store[i], upd) ELSE store[i]]

\* new Order({shopId, shopName, items, totalAmount}): status takes the
\* schema default (lines 356-360 and 455).
NewOrder(shopId, shopName, items, totalAmount) ==
  [items |-> items, totalAmount |-> totalAmount, shopId |-> shopId,
   shopName |-> shopName, status |-> "Pending"]

\* Faulty variant of ValidBody: an empty list passes.
ValidBodyNoLength(body) == Truthy(body.shopId) /\ body.items.isArray

\* The guard of lines 450 and 467.
ValidBody(body) ==
  /\ Truthy(body.shopId)
  /\ body.items.isArray
  /\ Len(body.items.elems) # 0

\* The guard of line 499.
ValidStatus(status) == status \in Statuses

\* ------------------------------------------------------------ the handlers
NoUpd == <<>>
Plan(code, upd) == [code |-> code, upd |-> upd]

\* Faulty variant of PutUpdate: the update also names status.
PutUpdateWithStatus(body, items, totalAmount) ==
  [items |-> items, totalAmount |-> totalAmount, shopId |-> body.shopId,
   shopName |-> body.shopName,
   status |-> IF body.status \in Statuses THEN body.status ELSE "Pending"]

\* The update document of the full replace, line 472.
PutUpdate(body, items, totalAmount) ==
  [items |-> items, totalAmount |-> totalAmount, shopId |-> body.shopId,
   shopName |-> body.shopName]

\* app.put("/api/orders/:id") up to the store call, lines 466-472: the
\* response code when it answers without reaching the store (400 from the
\* guard, 500 from the catch), or code 0 and the update it sends.  The update
\* is cast before it is sent: a NaN totalAmount fails the cast, an item
\* whose lineTotal is NaN either fails it or loses the field.
PutPlans(body) ==
  IF ~ValidBody(body) THEN {Plan(400, NoUpd)}
  ELSE LET r == buildParsedItems(body.items.elems)
       IN IF r.threw \/ r.totalAmount.cls = "nan" THEN {Plan(500, NoUpd)}
          ELSE IF HasNaNLine(r.parsedItems)
          THEN {Plan(500, NoUpd),
                Plan(0, PutUpdate(body, DropNaNLines(r.parsedItems),
                                  r.totalAmount))}
          ELSE {Plan(0, PutUpdate(body, r.parsedItems, r.totalAmount))}

\* Faulty variant of PatchPlan: no guard on the target value.
PatchPlanNoGuard(status) == Plan(0, [status |-> status])

\* app.patch("/api/orders/:id/status") up to the store call, lines 498-502.
PatchPlan(status) ==
  IF ~ValidStatus(status) THEN Plan(400, NoUpd)
  ELSE Plan(0, [status |-> status])

\* The store call of both and the answer to it, lines 472-475 and 502-504.
UpdateResult(store, id, upd) ==
  IF id \in DOMAIN store
  THEN [code |-> 200, store |-> FindByIdAndUpdate(store, id, upd)]
  ELSE [code |-> 404, store |-> store]

\* app.post("/api/orders"), lines 447-462.  order.save() validates the
\* document: a NaN lineTotal or totalAmount fails it.
CreateOrder(body) ==
  /\ IF ~ValidBody(body)
     THEN /\ resp' = Resp("create", 0, 400)
          /\ UNCHANGED <<orders, nextId>>
     ELSE LET r == buildParsedItems(body.items.elems)
          IN IF r.threw \/ r.totalAmount.cls = "nan" \/ HasNaNLine(r.parsedItems)
             THEN /\ resp' = Resp("create", 0, 500)
                  /\ UNCHANGED <<orders, nextId>>
             ELSE /\ nextId <= MaxOrders
                  /\ orders' = [i \in DOMAIN orders \cup {nextId} |->
                                  IF i = nextId
                                  THEN NewOrder(body.shopId, body.shopName,
                                                r.parsedItems, r.totalAmount)
                                  ELSE orders[i]]
                  /\ nextId' = nextId + 1
                  /\ resp' = Resp("create", nextId, 201)
  /\ UNCHANGED <<input, output, pending, answered, log, base>>

\* app.put("/api/orders/:id"), lines 464-480.
PutOrder(id, body) ==
  /\ \E plan \in PutPlans(body) :
       IF plan.code # 0
       THEN /\ resp' = Resp("put", id, plan.code)
            /\ UNCHANGED orders
       ELSE LET res == UpdateResult(orders, id, plan.upd)
            IN /\ orders' = res.store
               /\ resp' = Resp("put", id, res.code)
  /\ UNCHANGED <<input, output, nextId, pending, answered, log, base>>

\* Faulty variant of PatchStatus: no way back to Pending.
PatchStatusDirected(id, status) ==
  /\ LET plan == PatchPlan(status)
         blocked == /\ id \in DOMAIN orders
                    /\ orders[id].status # "Pending"
                    /\ status = "Pending"
     IN IF plan.code # 0 \/ blocked
        THEN /\ resp' = Resp("patch", id, 400)
             /\ UNCHANGED orders
        ELSE LET res == UpdateResult(orders, id, plan.upd)
             IN /\ orders' = res.store
                /\ resp' = Resp("patch", id, res.code)
  /\ UNCHANGED <<input, output, nextId, pending, answered, log, base>>

\* app.patch("/api/orders/:id/status"), lines 496-509.
PatchStatus(id, status) ==
  /\ LET plan == PatchPlan(status)
     IN IF plan.code # 0
        THEN /\ resp' = Resp("patch", id, plan.code)
             /\ UNCHANGED orders
        ELSE LET res == UpdateResult(orders, id, plan.upd)
             IN /\ orders' = res.store
                /\ resp' = Resp("patch", id, res.code)
  /\ UNCHANGED <<input, output, nextId, pending, answered, log, base>>

\* app.delete("/api/orders/:id") of the earlier revision, lines 261-284:
\* 200 whether or not a document was deleted.
DeleteOrderLegacy(id) ==
  /\ orders' = [i \in DOMAIN orders \ {id} |-> orders[i]]
  /\ resp' = [op |-> "delete", id |-> id, code |-> 200,
              deletedCount |-> IF id \in DOMAIN orders THEN 1 ELSE 0]
  /\ UNCHANGED <<input, output, nextId, pending, answered, log, base>>

\* app.delete("/api/orders/:id"), lines 511-525.
DeleteOrder(id) ==
  /\ orders' = [i \in DOMAIN orders \ {id} |-> orders[i]]
  /\ resp' = IF id \in DOMAIN orders
             THEN [op |-> "delete", id |-> id, code |-> 200, deletedCount |-> 1]
             ELSE [op |-> "delete", id |-> id, code |-> 404, deletedCount |-> 0]
  /\ UNCHANGED <<input, output, nextId, pending, answered, log, base>>

\* ------------------------------------------------- the order routes, Spec
Init ==
  /\ input = <<>>
  /\ output = NotRun
  /\ orders = <<>>
  /\ nextId = 1
  /\ resp = NoResp
  /\ pending = <<>>
  /\ answered = <<>>
  /\ log = <<>>
  /\ base = NewOrder(Undef, Undef, <<>>, Fin(0))

Next ==
  \/ \E body \in OrderBodies : CreateOrder(body)
  \/ \E id \in OrderIds, body \in OrderBodies : PutOrder(id, body)
  \/ \E id \in OrderIds, status \in StatusInputs : PatchStatus(id, status)
  \/ \E id \in OrderIds : DeleteOrder(id)

Spec == Init /\ [][Next]_vars

\* --------------------------------------------- the normaliser alone, SpecNorm
Normalize ==
  /\ ~output.done
  /\ LET r == buildParsedItems(input)
     IN output' = [parsedItems |-> r.parsedItems, threw |-> r.threw,
                   totalAmount |-> r.totalAmount, done |-> TRUE]
  /\ UNCHANGED <<input, orders, nextId, resp, pending, answered, log, base>>

InitNorm ==
  /\ input \in RawItemLists
  /\ output = NotRun
  /\ orders = <<>>
  /\ nextId = 1
  /\ resp = NoResp
  /\ pending = <<>>
  /\ answered = <<>>
  /\ log = <<>>
  /\ base = NewOrder(Undef, Undef, <<>>, Fin(0))

NextNorm == Normalize

SpecNorm == InitNorm /\ [][NextNorm]_vars

\* ------------------------------- concurrent requests on one order, SpecConc
\* Each handler runs up to its await of the store call, and the store
\* applies the calls one at a time in the order they reach it.  Requests are
\* numbered in their order of arrival; all address order 1.
SharedId == 1

Arrived == DOMAIN pending \cup DOMAIN answered

\* The bodies a create stores (lines 450-456).
CreatableBodies ==
  {b \in OrderBodies :
     /\ ValidBody(b)
     /\ LET r == buildParsedItems(b.items.elems)
        IN ~r.threw /\ r.totalAmount.cls # "nan" /\ ~HasNaNLine(r.parsedItems)}

\* The orders a create and later status changes can have left as order 1.
BaseOrders ==
  {[NewOrder(b.shopId, b.shopName, buildParsedItems(b.items.elems).parsedItems,
             buildParsedItems(b.items.elems).totalAmount)
      EXCEPT !.status = s] : b \in CreatableBodies, s \in Statuses}

\* A handler takes a request up to its store call.
Receive(op, plan) ==
  LET n == Cardinality(Arrived) + 1
  IN /\ n <= MaxRequests
     /\ IF plan.code # 0
        THEN /\ answered' = [i \in DOMAIN answered \cup {n} |->
                               IF i = n THEN plan.code ELSE answered[i]]
             /\ resp' = Resp(op, SharedId, plan.code)
             /\ UNCHANGED pending
        ELSE /\ pending' = [i \in DOMAIN pending \cup {n} |->
                              IF i = n THEN [op |-> op, upd |-> plan.upd]
                              ELSE pending[i]]
             /\ UNCHANGED <<answered, resp>>
     /\ UNCHANGED <<input, output, orders, nextId, log, base>>

ReceivePut(body) == \E plan \in PutPlans(body) : Receive("put", plan)

ReceivePatch(status) == Receive("patch", PatchPlan(status))

\* The store applies the call of request n and the handler answers.
StoreWrite(n) ==
  /\ n \in DOMAIN pending
  /\ LET res == UpdateResult(orders, SharedId, pending[n].upd)
     IN /\ orders' = res.store
        /\ answered' = [i \in DOMAIN answered \cup {n} |->
                          IF i = n THEN res.code ELSE answered[i]]
        /\ resp' = Resp(pending[n].op, SharedId, res.code)
  /\ pending' = [i \in DOMAIN pending \ {n} |-> pending[i]]
  /\ log' = Append(log, [op |-> pending[n].op, upd |-> pending[n].upd, req |-> n])
  /\ UNCHANGED <<input, output, nextId, base>>

InitConc ==
  /\ input = <<>>
  /\ output = NotRun
  /\ base \in BaseOrders
  /\ orders = [i \in {SharedId} |-> base]
  /\ nextId = SharedId + 1
  /\ resp = NoResp
  /\ pending = <<>>
  /\ answered = <<>>
  /\ log = <<>>

NextConc ==
  \/ \E body \in OrderBodies : ReceivePut(body)
  \/ \E status \in StatusInputs : ReceivePatch(status)
  \/ \E n \in 1..MaxRequests : StoreWrite(n)

SpecConc == InitConc /\ [][NextConc]_vars

\* ------------------------------------------------------------- properties
\* How the specification words classify a raw numeric field.
FieldMissing(x) == x.typ \in {"undef", "null"}
FieldNonNumeric(x) == x.typ \in {"str", "object"}
FieldZero(x) == x.typ \in {"num", "numstr", "emptystr", "bool"} /\ x.lit = 0
FieldParsed(x) == IF x.typ = "infstr" THEN Inf(x.lit) ELSE Fin(x.lit)

NormalQty(x) ==
  IF FieldMissing(x) \/ FieldNonNumeric(x) \/ FieldZero(x) THEN Fin(1)
  ELSE FieldParsed(x)
NormalPrice(x) ==
  IF FieldMissing(x) \/ FieldNonNumeric(x) THEN Fin(0) ELSE FieldParsed(x)

\* The sum of the lineTotal values the stored items carry.
RECURSIVE SumLineTotals(_, _)
SumLineTotals(items, i) ==
  IF i > Len(items) THEN Fin(0)
  ELSE IF items[i].lineTotal.cls = "absent" THEN SumLineTotals(items, i + 1)
  ELSE Add(items[i].lineTotal, SumLineTotals(items, i + 1))

ShopMissing(body) == body.shopId.typ \in {"undef", "null", "emptystr"}
ItemsEmptyOrNoList(body) == ~body.items.isArray \/ body.items.elems = <<>>

\* C1: in every reachable state of the order store, every stored order's
\* status is one of Pending, Delivered, Cancelled.
StatusInEnum ==
  \A id \in DOMAIN orders :
    orders[id].status \in {"Pending", "Delivered", "Cancelled"}

StatusInEnumWitness ==
  /\ resp.op = "patch"
  /\ resp.code = 400
  /\ \E id \in DOMAIN orders : orders[id].status = "Cancelled"
  /\ \E id \in DOMAIN orders : orders[id].status = "Delivered"

\* C2: a status change on a stored order with a target outside the three
\* values (a missing one included) answers 400 and leaves the store as it
\* was; with a target among the three it answers 200 and the stored status
\* becomes the target, whatever it was, nothing else changing.
StatusChangeContract ==
  [][\A id \in OrderIds, status \in StatusInputs :
       (id \in DOMAIN orders /\ resp'.op = "patch" /\ resp'.id = id
          /\ PatchStatus(id, status)) =>
         IF status \in {"Pending", "Delivered", "Cancelled"}
         THEN /\ resp'.code = 200
              /\ orders' = [orders EXCEPT ![id].status = status]
         ELSE /\ resp'.code = 400
              /\ orders' = orders]_vars

StatusChangeWitness ==
  /\ resp.op = "patch"
  /\ resp.code = 400
  /\ resp.id \in DOMAIN orders
  /\ orders[resp.id].status = "Delivered"

\* C3: a full replace of a stored order leaves its status as it was, for
\* every current status and every body, one carrying a status included.
PutKeepsStatus ==
  [][\A id \in OrderIds, body \in OrderBodies :
       (id \in DOMAIN orders /\ resp'.op = "put" /\ resp'.id = id
          /\ PutOrder(id, body)) =>
         /\ id \in DOMAIN orders'
         /\ orders'[id].status = orders[id].status]_vars

PutKeepsStatusWitness ==
  /\ resp.op = "put"
  /\ resp.code = 200
  /\ resp.id \in DOMAIN orders
  /\ orders[resp.id].status = "Delivered"
  /\ orders[resp.id].shopName = Undef

\* C4: in every reachable state every stored order's totalAmount is the sum
\* of the lineTotal values of its stored items.
TotalIsSum ==
  \A id \in DOMAIN orders :
    orders[id].totalAmount = SumLineTotals(orders[id].items, 1)

TotalIsSumWitness ==
  /\ \E id \in DOMAIN orders :
       /\ Len(orders[id].items) = 2
       /\ orders[id].totalAmount = Fin(8)
  /\ \E id \in DOMAIN orders : orders[id].totalAmount = Fin(20)

\* C5: the normalised qty is 1 when the raw qty is missing, non-numeric or
\* zero and the parsed number otherwise; [{price:5},{mrp:9,price:3,qty:0}]
\* gives line totals 5 and 3 and total 8.
QtyDefaulting ==
  (output.done /\ ~output.threw) =>
    /\ \A i \in 1..Len(input) :
         /\ i \in DOMAIN output.parsedItems
         /\ output.parsedItems[i].qty =
              (IF \/ FieldMissing(input[i].qty)
                  \/ FieldNonNumeric(input[i].qty)
                  \/ FieldZero(input[i].qty)
               THEN Fin(1) ELSE FieldParsed(input[i].qty))
    /\ input = <<ItemA, ItemB>> =>
         /\ output.parsedItems[1].lineTotal = Fin(5)
         /\ output.parsedItems[2].qty = Fin(1)
         /\ output.parsedItems[2].lineTotal = Fin(3)
         /\ output.totalAmount = Fin(8)

QtyDefaultingWitness ==
  /\ output.done
  /\ input = <<ItemA, ItemB>>
  /\ output.totalAmount = Fin(8)

\* C6: every item buildParsedItems produces has lineTotal = price * qty on
\* the defaulted values (price 0 when missing or non-numeric, qty 1 when
\* missing, non-numeric or zero), one output item per input item, in order.
LineTotalIsPriceTimesQty ==
  (output.done /\ ~output.threw) =>
    /\ Len(output.parsedItems) = Len(input)
    /\ \A i \in 1..Len(input) :
         LET o == output.parsedItems[i]
         IN /\ o.price = NormalPrice(input[i].price)
            /\ o.qty = NormalQty(input[i].qty)
            /\ o.lineTotal = Mul(NormalPrice(input[i].price),
                                 NormalQty(input[i].qty))
            /\ o.productName = input[i].productName

LineTotalWitness ==
  /\ output.done
  /\ Len(input) = 2
  /\ input[1] = ItemC
  /\ input[2] = ItemB
  /\ output.parsedItems[1].lineTotal = Fin(20)
  /\ output.parsedItems[2].lineTotal = Fin(3)

\* C7: a create or a full replace whose shopId is missing or whose items is
\* empty or no list answers 400 and leaves the store as it was; so every
\* stored order has a shopId and at least one item.
InvalidBodyRejected ==
  /\ [](\A id \in DOMAIN orders :
          /\ Truthy(orders[id].shopId)
          /\ Len(orders[id].items) >= 1)
  /\ [][\A body \in OrderBodies :
          (ShopMissing(body) \/ ItemsEmptyOrNoList(body)) =>
            /\ (resp'.op = "create" /\ CreateOrder(body)) =>
                 (resp'.code = 400 /\ orders' = orders)
            /\ \A id \in OrderIds :
                 (resp'.op = "put" /\ resp'.id = id /\ PutOrder(id, body)) =>
                   (resp'.code = 400 /\ orders' = orders)]_vars

InvalidBodyWitness ==
  /\ resp.op = "put"
  /\ resp.code = 400
  /\ resp.id \in DOMAIN orders

NormalizerNeverRaises == output.done => ~output.threw

\* C10: two requests on one stored order are last-writer-wins: each one
\* that reached the store is answered 200 and applied once, the stored
\* shopId, shopName, items and totalAmount are those of the full replace
\* that reached the store last (never a mixture), and the stored status is
\* that of the status change that reached it last.
LastOf(op) ==
  LET idx == {i \in 1..Len(log) : log[i].op = op}
  IN IF idx = {} THEN 0 ELSE CHOOSE i \in idx : \A j \in idx : j <= i

====
